---------------------------- MODULE Spec2Model ----------------------------
(***************************************************************************)
(* A model of the pathway store (pathway_explorer/database.py), of the     *)
(* record model (pathway_explorer/models.py) and of the validation step    *)
(* (pathway_explorer/tools.py, PathwayValidatorTool), of the discovery     *)
(* tool (PathwayDiscoveryLLMTool) and of the agent                         *)
(* (pathway_explorer/agent.py).                                            *)
(*                                                                         *)
(* JSON text is a sequence of tokens (the chunks json.dump writes), a raw  *)
(* dictionary is a record, a float is a number of tenths.                  *)
(***************************************************************************)
EXTENDS Integers, Sequences, FiniteSets, TLC

VARIABLES
    parent,     \* what is at the backing file's parent directory path
    file,       \* the backing file: [kind, text]
    store,      \* store[i]: the PathwayDatabase object of process i
    last,       \* the last call on a store and how it ended
    raw,        \* the raw dictionary handed to the validator / the constructor
    vres,       \* what PathwayValidatorTool._run returned for it
    built,      \* what Pathway(raw)   gave
    collected,  \* the keys of the agent's collected_pathways
    accepted,   \* the names the validator stamped and Pathway accepted so far
    walk        \* the call stack of explore_related_pathways and its log

vars == <<parent, file, store, last, raw, vres, built, collected, accepted, walk>>
storeVars == <<parent, file, store, last>>
recordVars == <<raw, vres, built>>
agentVars == <<collected, accepted, walk>>

(***************************************************************************)
(* Bounds.                                                                 *)
(***************************************************************************)
\* add_pathway is not called on a list that already holds this many entries
MaxPathways == 3

(***************************************************************************)
(* Pathway dictionaries as the store sees them.  The store reads only the  *)
(* "name" key; confidence stands for the rest of the payload, and          *)
(* last_updated for a value json cannot serialise (Pathway.dict() carries  *)
(* a datetime there).                                                      *)
(***************************************************************************)
NoName == "<no name key>"

Names == {"Glycolysis", "glycolysis", "TCA"}

Dict(n, c, lu) == [name |-> n, confidence |-> c, last_updated |-> lu]

Gly9 == Dict("Glycolysis", 9, "none")
Gly2 == Dict("Glycolysis", 2, "none")
gly9 == Dict("glycolysis", 9, "none")
Tca9 == Dict("TCA", 9, "none")
TcaDt == Dict("TCA", 2, "datetime")
Anon == Dict(NoName, 2, "none")

\* the dictionaries callers hand to add_pathway
PathwayDicts == {Gly9, Gly2, gly9, Tca9, TcaDt, Anon}

NoDict == Dict(NoName, 0, "none")

Stamps == {"t1", "t2"}

\* str.lower() on the names of the model
Lower(s) ==
    CASE s = "Glycolysis" -> "glycolysis"
      [] s = "TCA" -> "tca"
      [] OTHER -> s

(***************************************************************************)
(* json.dump: the chunks written, and whether the encoder got to the end.  *)
(***************************************************************************)
FloatRepr(c) ==
    CASE c = 0 -> "0.0"
      [] c = 2 -> "0.2"
      [] c = 9 -> "0.9"
      [] OTHER -> "NaN"

FloatParse(t) ==
    CASE t = "0.0" -> 0
      [] t = "0.2" -> 2
      [] t = "0.9" -> 9
      [] OTHER -> -1

Serializable(p) == p.last_updated # "datetime"

\* the chunks of one dictionary; a datetime value raises TypeError after its key
EntryChunks(p) ==
    <<"{">>
    \o (IF p.name # NoName THEN <<"name", p.name>> ELSE <<>>)
    \o <<"confidence", FloatRepr(p.confidence)>>
    \o (IF Serializable(p) THEN <<"}">> ELSE <<"last_updated">>)

RECURSIVE ListChunks(_)
ListChunks(ps) ==
    IF ps = <<>> THEN [ok |-> TRUE, chunks |-> <<>>]
    ELSE IF ~Serializable(Head(ps))
         THEN [ok |-> FALSE, chunks |-> EntryChunks(Head(ps))]
         ELSE LET r == ListChunks(Tail(ps))
              IN [ok |-> r.ok, chunks |-> EntryChunks(Head(ps)) \o r.chunks]

\* json.dump({"pathways": ps, "last_updated": now}, f, indent=2)
json_dump(ps, now) ==
    LET r == ListChunks(ps)
    IN  IF r.ok
        THEN [ok |-> TRUE,
              chunks |-> <<"{", "pathways", "[">> \o r.chunks
                         \o <<"]", "last_updated", now, "}">>]
        ELSE [ok |-> FALSE, chunks |-> <<"{", "pathways", "[">> \o r.chunks]

(***************************************************************************)
(* json.load: the value a text parses to, or JSONDecodeError.              *)
(***************************************************************************)
Document(shape, ps, lu) == [shape |-> shape, pathways |-> ps, last_updated |-> lu]

Tok(t, i) == IF i >= 1 /\ i <= Len(t) THEN t[i] ELSE "<eof>"

\* one object of the pathways array starting at token i
ParseEntry(t, i) ==
    LET named == Tok(t, i + 1) = "name"
        j == IF named THEN i + 3 ELSE i + 1
        n == IF named THEN Tok(t, i + 2) ELSE NoName
        c == FloatParse(Tok(t, j + 1))
    IN  IF /\ Tok(t, i) = "{"
           /\ (named => n \in Names)
           /\ Tok(t, j) = "confidence"
           /\ c >= 0
           /\ Tok(t, j + 2) = "}"
        THEN [ok |-> TRUE, entry |-> Dict(n, c, "none"), next |-> j + 3]
        ELSE [ok |-> FALSE, entry |-> NoDict, next |-> i]

RECURSIVE ParseEntries(_, _)
ParseEntries(t, i) ==
    IF Tok(t, i) = "]" THEN [ok |-> TRUE, entries |-> <<>>, next |-> i + 1]
    ELSE LET e == ParseEntry(t, i)
         IN  IF ~e.ok THEN [ok |-> FALSE, entries |-> <<>>, next |-> i]
             ELSE LET r == ParseEntries(t, e.next)
                  IN [ok |-> r.ok, entries |-> <<e.entry>> \o r.entries,
                      next |-> r.next]

json_load(t) ==
    IF t = <<"[", "]">> THEN [ok |-> TRUE, value |-> Document("list", <<>>, "none")]
    ELSE IF t = <<"{", "}">>
    THEN [ok |-> TRUE, value |-> Document("nokey", <<>>, "none")]
    ELSE IF Tok(t, 1) = "{" /\ Tok(t, 2) = "pathways" /\ Tok(t, 3) = "["
    THEN LET r == ParseEntries(t, 4)
         IN  IF /\ r.ok
                /\ Tok(t, r.next) = "last_updated"
                /\ Tok(t, r.next + 1) \in Stamps
                /\ Tok(t, r.next + 2) = "}"
                /\ Len(t) = r.next + 2
             THEN [ok |-> TRUE,
                   value |-> Document("doc", r.entries, Tok(t, r.next + 1))]
             ELSE [ok |-> FALSE, value |-> Document("none", <<>>, "none")]
    ELSE [ok |-> FALSE, value |-> Document("none", <<>>, "none")]

(***************************************************************************)
(* Raw dictionaries as the validator and the record model see them: the    *)
(* keys present, and per nested dictionary its keys.  A compound or a      *)
(* reaction is the set of its keys.                                        *)
(***************************************************************************)
Metadata(keys, c) ==
    [keys |-> keys, confidence |-> c,
     verification_status |-> "unverified", llm_validation_notes |-> "None"]

NoMetadata == Metadata({}, 0)

Raw(json, keys, cs, rs, m) ==
    [json |-> json, keys |-> keys, compounds |-> cs, reactions |-> rs,
     metadata |-> m]

NoRaw == Raw(FALSE, {}, <<>>, <<>>, NoMetadata)

Compounds ==
    {<<>>,
     <<{"id", "name", "formula"}>>,
     <<{"id", "name"}>>,
     <<{"name", "formula"}>>,
     <<{"id", "name"}, {"id"}>>}

Reactions ==
    {<<>>,
     <<{"reactants", "products", "enzymes"}>>,
     <<{"reactants", "products"}>>,
     <<{"reactants", "enzymes"}>>}

Confidences == {-1, 0, 5, 10, 15}

Metadatas ==
    {Metadata(k \cup {"confidence"}, c) :
        k \in SUBSET {"source", "verification_status"}, c \in Confidences}
    \cup {Metadata(k, 0) : k \in SUBSET {"source"}}

\* the inputs: a text that is not JSON, and the dictionaries
RawDicts ==
    {NoRaw} \cup
    {Raw(TRUE, scalars \cup c[1] \cup r[1] \cup m[1], c[2], r[2], m[2]) :
        scalars \in {{}, {"id"}, {"name"}, {"id", "name"},
                     {"id", "name", "description", "related_pathways"}},
        c \in {<<{}, <<>> >>} \cup {<<{"compounds"}, x>> : x \in Compounds},
        r \in {<<{}, <<>> >>} \cup {<<{"reactions"}, x>> : x \in Reactions},
        m \in {<<{}, NoMetadata>>} \cup {<<{"metadata"}, x>> : x \in Metadatas}}

(***************************************************************************)
(* PathwayValidatorTool._run                                               *)
(***************************************************************************)
NotValidated == [kind |-> "none", missing |-> <<>>, dict |-> NoRaw]

\* required_fields = ["id", "name", "compounds"]
required_fields == <<"id", "name", "compounds">>

\* [field for field in required_fields if field not in pathway_dict]
missing_fields(d) == SelectSeq(required_fields, LAMBDA f : f \notin d.keys)

\* the two assignments into pathway_dict["metadata"]
Stamped(d) ==
    [d EXCEPT !.metadata.keys = @ \cup {"verification_status", "llm_validation_notes"},
              !.metadata.verification_status = "validated",
              !.metadata.llm_validation_notes = "Basic validation passed"]

\* what _run returns: the dumped dictionary, or one of its three messages
validator_run(d) ==
    IF ~d.json
    THEN [kind |-> "Error: Invalid JSON data", missing |-> <<>>, dict |-> NoRaw]
    ELSE IF missing_fields(d) # <<>>
    THEN [kind |-> "Validation Error: Missing required fields",
          missing |-> missing_fields(d), dict |-> NoRaw]
    ELSE IF "metadata" \notin d.keys
    THEN [kind |-> "Error during validation", missing |-> <<>>, dict |-> NoRaw]
    ELSE [kind |-> "validated", missing |-> <<>>, dict |-> Stamped(d)]

validate ==
    /\ vres' = validator_run(raw)
    /\ UNCHANGED <<storeVars, raw, built, agentVars>>

(***************************************************************************)
(* The record model: Pathway(raw)                                          *)
(***************************************************************************)
\* the fields declared Field(...)
PathwayRequired == {"id", "name", "metadata"}
MetadataRequired == {"source", "confidence"}
CompoundRequired == {"id", "name"}
ReactionRequired == {"reactants", "products"}

\* confidence: ge=0.0, le=1.0, in tenths
ConfidenceGe == 0
ConfidenceLe == 10

\* gt/lt in place of ge/le
ConfidenceStrictlyInside(c) == c > ConfidenceGe /\ c < ConfidenceLe

ConfidenceInRange(c) == c >= ConfidenceGe /\ c <= ConfidenceLe

\* the locations pydantic reports for a metadata dictionary
MetadataErrors(m) ==
    {"metadata." \o f : f \in MetadataRequired \ m.keys}
    \cup (IF "confidence" \in m.keys /\ ~ConfidenceInRange(m.confidence)
          THEN {"metadata.confidence"} ELSE {})

ListErrors(field, items, required) ==
    IF \E k \in 1..Len(items) : ~(required \subseteq items[k])
    THEN {field} ELSE {}

ValidationErrors(d) ==
    (PathwayRequired \ d.keys)
    \cup (IF "metadata" \in d.keys THEN MetadataErrors(d.metadata) ELSE {})
    \cup (IF "compounds" \in d.keys
          THEN ListErrors("compounds", d.compounds, CompoundRequired) ELSE {})
    \cup (IF "reactions" \in d.keys
          THEN ListErrors("reactions", d.reactions, ReactionRequired) ELSE {})

\* the value of an optional field: what was given, or the declared default
Given(keys, field, default) == IF field \in keys THEN "given" ELSE default

NoPathway ==
    [description |-> "unset", compounds |-> <<>>, reactions |-> <<>>,
     related_pathways |-> "unset", verification_status |-> "unset",
     llm_validation_notes |-> "unset"]

\* the fields of the record built from a dictionary that validates
PathwayOf(d) ==
    [description |-> Given(d.keys, "description", "None"),
     compounds |-> [k \in 1..Len(d.compounds) |->
                       [formula |-> Given(d.compounds[k], "formula", "None")]],
     reactions |-> [k \in 1..Len(d.reactions) |->
                       [enzymes |-> Given(d.reactions[k], "enzymes", "[]")]],
     related_pathways |-> Given(d.keys, "related_pathways", "[]"),
     verification_status |->
         IF "verification_status" \in d.metadata.keys
         THEN d.metadata.verification_status ELSE "unverified",
     llm_validation_notes |->
         IF "llm_validation_notes" \in d.metadata.keys
         THEN d.metadata.llm_validation_notes ELSE "None"]

NotBuilt == [called |-> FALSE, errors |-> {}, pathway |-> NoPathway]

\* Pathway(d): the record, or the ValidationError with its locations
Pathway(d) ==
    LET e == ValidationErrors(d)
    IN  [called |-> TRUE, errors |-> e,
         pathway |-> IF e = {} THEN PathwayOf(d) ELSE NoPathway]

construct ==
    /\ raw.json
    /\ built' = Pathway(raw)
    /\ UNCHANGED <<storeVars, raw, vres, agentVars>>

(***************************************************************************)
(* The file system: the parent directory of the backing file and the file. *)
(***************************************************************************)
\* "dir": a directory; "missing": absent, its own parent present;
\* "nested_missing": absent, and so is its parent; "not_dir": a regular file
ParentStates == {"dir", "missing", "nested_missing", "not_dir"}

Absent == [kind |-> "absent", text |-> <<>>]
\* the path exists and open() on it raises OSError (a directory, no permission)
Unreadable == [kind |-> "unreadable", text |-> <<>>]
TextFile(t) == [kind |-> "text", text |-> t]

\* the text a complete save of ps leaves
DocText(ps, now) == json_dump(ps, now).chunks

\* the backing files a run may start from
InitialFiles ==
    {Absent, Unreadable,
     TextFile(<<"{", "not", "json">>),
     TextFile(<<"[", "]">>),
     TextFile(<<"{", "}">>),
     TextFile(DocText(<<>>, "t1")),
     TextFile(DocText(<<Tca9>>, "t1")),
     TextFile(DocText(<<Gly9, Tca9, gly9>>, "t1")),
     TextFile(DocText(<<Gly2, Gly9>>, "t1")),
     TextFile(DocText(<<Gly9, Anon>>, "t1"))}

(***************************************************************************)
(* PathwayDatabase.                                                        *)
(***************************************************************************)
NoStore == [live |-> FALSE, data |-> Document("none", <<>>, "none")]
Live(d) == [live |-> TRUE, data |-> d]

Idle == [op |-> "none", who |-> 0, arg |-> NoDict, fault |-> "none",
         outcome |-> "none", ret |-> <<>>]
Call(op, i, arg, fault, outcome, ret) ==
    [op |-> op, who |-> i, arg |-> arg, fault |-> fault,
     outcome |-> outcome, ret |-> ret]

\* Path.mkdir(exist_ok=True), parents=False: what it leaves, or that it raises
mkdir(p) ==
    CASE p = "dir" -> [raised |-> FALSE, parent |-> "dir"]
      [] p = "missing" -> [raised |-> FALSE, parent |-> "dir"]
      [] OTHER -> [raised |-> TRUE, parent |-> p]

\* _load_data with only the JSONDecodeError clause
CaughtOnlyDecodeError(f) == f.kind # "unreadable"

\* the except clauses of _load_data: both fall through to the empty structure
CaughtOnLoad(f) == TRUE

\* _load_data that never returns what it parsed
load_data_discarding(f, now) ==
    [raised |-> FALSE, value |-> Document("doc", <<>>, now)]

\* _load_data: the document self.pathways is bound to
load_data(f, now) ==
    LET empty == Document("doc", <<>>, now)
        parsed == json_load(f.text)
        failed == f.kind = "unreadable" \/ (f.kind = "text" /\ ~parsed.ok)
    IN  IF f.kind = "absent" THEN [raised |-> FALSE, value |-> empty]
        ELSE IF failed
        THEN IF CaughtOnLoad(f) THEN [raised |-> FALSE, value |-> empty]
             ELSE [raised |-> TRUE, value |-> Document("none", <<>>, "none")]
        ELSE [raised |-> FALSE, value |-> parsed.value]

\* PathwayDatabase(data_file) in process i
init(i, now) ==
    LET d == mkdir(parent)
        l == load_data(file, now)
    IN  /\ parent' = d.parent
        /\ IF d.raised \/ l.raised
           THEN /\ store' = [store EXCEPT ![i] = NoStore]
                /\ last' = Call("init", i, NoDict, "none", "raised", <<>>)
           ELSE /\ store' = [store EXCEPT ![i] = Live(l.value)]
                /\ last' = Call("init", i, NoDict, "none", "ok", <<>>)
        /\ UNCHANGED <<file, recordVars, agentVars>>

\* p['name'].lower() == pathway['name'].lower()
NamesEqualIgnoringCase(a, b) == Lower(a) = Lower(b)

\* p['name'] == pathway['name']
NamesEqual(a, b) == a = b

\* any(p['name'] == pathway['name'] for p in ps): "true", "false", or KeyError
RECURSIVE AnyNameMatches(_, _)
AnyNameMatches(ps, pathway) ==
    IF ps = <<>> THEN "false"
    ELSE IF Head(ps).name = NoName \/ pathway.name = NoName THEN "raise"
    ELSE IF NamesEqual(Head(ps).name, pathway.name) THEN "true"
    ELSE AnyNameMatches(Tail(ps), pathway)

\* the if branch: self.pathways['pathways'].append(pathway)
Appended(ps, pathway) == Append(ps, pathway)

\* an else branch that overwrites the entry of that name
ReplaceExisting(ps, pathway) ==
    [k \in 1..Len(ps) |-> IF ps[k].name = pathway.name THEN pathway ELSE ps[k]]

\* the else branch: a message, the list as it was
AlreadyExists(ps, pathway) == ps

\* add_pathway without the existence test
AddPathwayUnchecked(ps, pathway) ==
    IF pathway.name = NoName THEN [outcome |-> "raised", pathways |-> ps]
    ELSE [outcome |-> "ok", pathways |-> Append(ps, pathway)]

\* add_pathway on a list: how it ends and the list it leaves
AddPathway(ps, pathway) ==
    LET m == AnyNameMatches(ps, pathway)
    IN  CASE m = "raise" -> [outcome |-> "raised", pathways |-> ps]
          [] m = "false" ->
               IF pathway.name = NoName
               THEN [outcome |-> "raised", pathways |-> ps]
               ELSE [outcome |-> "ok", pathways |-> Appended(ps, pathway)]
          [] OTHER -> [outcome |-> "ok", pathways |-> AlreadyExists(ps, pathway)]

add_pathway(i, pathway) ==
    /\ store[i].live
    /\ Len(store[i].data.pathways) < MaxPathways
    /\ IF store[i].data.shape # "doc"
       THEN /\ last' = Call("add", i, pathway, "none", "raised", <<>>)
            /\ UNCHANGED store
       ELSE LET r == AddPathway(store[i].data.pathways, pathway)
            IN  /\ store' = [store EXCEPT ![i].data.pathways = r.pathways]
                /\ last' = Call("add", i, pathway, "none", r.outcome, <<>>)
    /\ UNCHANGED <<parent, file, recordVars, agentVars>>

\* {p["name"].lower() for p in ps}, the first definition, which the second
\* one replaces: each lowered name once
RECURSIVE KnownNamesLowered(_)
KnownNamesLowered(ps) ==
    IF ps = <<>> THEN <<>>
    ELSE LET rest == KnownNamesLowered(SubSeq(ps, 1, Len(ps) - 1))
             n == Lower(ps[Len(ps)].name)
         IN  IF \E k \in 1..Len(rest) : rest[k] = n THEN rest ELSE Append(rest, n)

\* [p['name'] for p in ps], the definition in force (the second one)
KnownNames(ps) == [k \in 1..Len(ps) |-> ps[k].name]

get_known_pathways(i) ==
    /\ store[i].live
    /\ IF \/ store[i].data.shape # "doc"
          \/ \E k \in 1..Len(store[i].data.pathways) :
                store[i].data.pathways[k].name = NoName
       THEN last' = Call("get", i, NoDict, "none", "raised", <<>>)
       ELSE last' = Call("get", i, NoDict, "none", "ok",
                         KnownNames(store[i].data.pathways))
    /\ UNCHANGED <<parent, file, store, recordVars, agentVars>>

\* open(self.data_file, 'a')
OpenForAppending(old) == old

\* open(self.data_file, 'w'): the text the file holds once opened
OpenForWriting(old) == <<>>

\* an except clause without the raise
SaveOutcomeSwallowed(failed) == "ok"

\* the except clause of save: print, then raise
SaveOutcome(failed) == IF failed THEN "raised" ELSE "ok"

\* where a failing write may leave the text: nothing flushed, or all but the end
Cuts(chunks) == {0} \cup {k \in {Len(chunks) - 1} : k >= 0}

SubText(chunks, n) == [k \in 1..n |-> chunks[k]]

Faults == {"none", "open", "write"}

\* what save does to the file and how it ends, for each way the fault may
\* fall; fault: "none", "open" (open raises), "write" (a write or the flush
\* raises)
SaveEffects(f, d, fault, now) ==
    IF d.shape # "doc" \/ f.kind = "unreadable" \/ fault = "open"
    THEN {[outcome |-> SaveOutcome(TRUE), file |-> f]}
    ELSE LET c == json_dump(d.pathways, now)
             opened == OpenForWriting(f.text)
         IN  IF fault = "write"
             THEN {[outcome |-> SaveOutcome(TRUE),
                    file |-> TextFile(opened \o SubText(c.chunks, n))] :
                      n \in Cuts(c.chunks)}
             ELSE {[outcome |-> SaveOutcome(~c.ok),
                    file |-> TextFile(opened \o c.chunks)]}

save(i, fault, now) ==
    /\ store[i].live
    /\ \E r \in SaveEffects(file, store[i].data, fault, now) :
          /\ file' = r.file
          /\ last' = Call("save", i, NoDict, fault, r.outcome, <<>>)
    /\ UNCHANGED <<parent, store, recordVars, agentVars>>

\* the calls process i may make, its inputs drawn from dicts and faults
StoreOp(i, dicts, faults) ==
    \/ \E now \in Stamps : init(i, now)
    \/ \E pathway \in dicts : add_pathway(i, pathway)
    \/ get_known_pathways(i)
    \/ \E fault \in faults, now \in Stamps : save(i, fault, now)

(***************************************************************************)
(* PathwayDiscoveryLLMTool._run                                            *)
(***************************************************************************)
\* one element of the "pathways" array of the LLM's answer; complete: it has
\* name, description, compounds and enzymes
LlmPathway(n, complete) == [name |-> n, complete |-> complete]

\* kind: "raises" (llm.invoke raises), "unparseable" (parser.parse raises),
\* "no_pathways" (no 'pathways' key), "ok"
Response(kind, ps) == [kind |-> kind, pathways |-> ps]

Responses ==
    {Response("raises", <<>>),
     Response("unparseable", <<>>),
     Response("no_pathways", <<>>),
     Response("ok", <<LlmPathway("Glycolysis", TRUE)>>),
     Response("ok", <<LlmPathway("TCA", TRUE)>>),
     Response("ok", <<LlmPathway("glycolysis", FALSE)>>),
     Response("ok", <<LlmPathway("Glycolysis", TRUE), LlmPathway("TCA", TRUE)>>),
     Response("ok", <<LlmPathway("TCA", TRUE), LlmPathway("glycolysis", FALSE)>>)}

\* a MetabolicPathway that takes whatever dictionary it is given
MetabolicPathwayTakesAny(p) == TRUE

\* MetabolicPathway(**pathway): its four fields are all required
MetabolicPathwayAccepts(p) == p.complete

\* the parse block up to the PathwayList: it is built, or something raised
Parsed(response) ==
    /\ response.kind = "ok"
    /\ \A k \in 1..Len(response.pathways) :
          MetabolicPathwayAccepts(response.pathways[k])

\* pathway.dict() as the store sees it
ToolDict(p) == Dict(p.name, 9, "none")

\* for pathway in pathway_list.pathways: self.database.add_pathway(...)
RECURSIVE AddAll(_, _)
AddAll(ps, items) ==
    IF items = <<>> THEN [outcome |-> "ok", pathways |-> ps]
    ELSE LET r == AddPathway(ps, ToolDict(Head(items)))
         IN  IF r.outcome = "raised" THEN r ELSE AddAll(r.pathways, Tail(items))

\* self.database.get_known_pathways() raises on this document
GetRaises(d) ==
    \/ d.shape # "doc"
    \/ \E k \in 1..Len(d.pathways) : d.pathways[k].name = NoName

\* the faults of one run: those of save, and a failing write of the log file
\* or of the markdown file
ToolFaults == {"none", "open", "write", "log", "markdown"}

\* the ways _run may end on document d and file f: what it returns ("response"
\* or "error"), the document and the file it leaves
DiscoverRun(d, f, response, fault, now) ==
    IF GetRaises(d) \/ ~Parsed(response)
    THEN {[returned |-> "error", data |-> d, file |-> f]}
    ELSE LET added == AddAll(d.pathways, response.pathways)
             d2 == [d EXCEPT !.pathways = added.pathways]
         IN  IF added.outcome = "raised"
             THEN {[returned |-> "error", data |-> d2, file |-> f]}
             ELSE {[returned |-> IF r.outcome = "raised" \/ fault \in {"log", "markdown"}
                                 THEN "error" ELSE "response",
                    data |-> d2, file |-> r.file] :
                      r \in SaveEffects(f, d2,
                                        IF fault \in Faults THEN fault ELSE "none",
                                        now)}

\* agent.discoverer._run(query), called on the tool itself
discover_run(i, response, fault, now) ==
    /\ store[i].live
    /\ Len(store[i].data.pathways) + Len(response.pathways) <= MaxPathways
    /\ \E r \in DiscoverRun(store[i].data, file, response, fault, now) :
          /\ store' = [store EXCEPT ![i].data = r.data]
          /\ file' = r.file
          /\ last' = Call("discover_run", i, NoDict, fault, r.returned, <<>>)
    /\ UNCHANGED <<parent, recordVars, agentVars>>

(***************************************************************************)
(* PathwayExplorerAgent: explore_pathway, load_pathways,                   *)
(* discover_pathways_with_llm.  self.agent.run is the LLM-driven executor: *)
(* it runs the tool it is told to use and answers with a text, which is    *)
(* either a message holding "Error" or a dictionary.                       *)
(***************************************************************************)
\* collected_pathways does not grow beyond this many keys
MaxCollected == 3

\* the dictionary the KEGG extractor builds
KeggRaw ==
    Raw(TRUE, {"id", "name", "description", "compounds", "reactions", "metadata"},
        <<>>, <<>>, Metadata({"source", "confidence", "verification_status"}, 9))

\* what agent.run may answer: an error text, a text that is not JSON, the
\* extractor's dictionary, or dictionaries lacking something
Answer(error, d) == [error |-> error, dict |-> d]

AgentAnswers ==
    {Answer(TRUE, NoRaw)} \cup
    {Answer(FALSE, d) :
        d \in {NoRaw, KeggRaw,
               Raw(TRUE, {"id", "name", "compounds"}, <<>>, <<>>, NoMetadata),
               Raw(TRUE, {"name", "description", "compounds", "enzymes"},
                   <<>>, <<>>, NoMetadata),
               Raw(TRUE, {"id", "name", "compounds", "metadata"}, <<>>, <<>>,
                   Metadata({"confidence"}, 9))}}

\* "Error" in result: every message of the validator holds the word
HoldsError(v) == v.kind # "validated"

\* the steps after the scrape / the discovery: validate, json.loads,
\* Pathway(...); TRUE when a Pathway comes out
Accepted(answer) ==
    /\ ~answer.error
    /\ ~HoldsError(validator_run(answer.dict))
    /\ Pathway(validator_run(answer.dict).dict).errors = {}

ExploreIds == {"map00010", "WP534"}

\* f"LLM_PATH_{len(self.collected_pathways)}"
LlmId(n) == "LLM_PATH_" \o ToString(n)

\* explore_pathway(pathway_id): the record is stored under its own id, which
\* the extractor sets to pathway_id
explore_pathway(pathway_id, answer, name) ==
    /\ store[1].live
    /\ Cardinality(collected \cup {pathway_id}) <= MaxCollected
    /\ IF Accepted(answer)
       THEN /\ collected' = collected \cup {pathway_id}
            /\ accepted' = accepted \cup {name}
            /\ last' = Call("explore_pathway", 1, NoDict, "none", "stored", <<>>)
       ELSE /\ UNCHANGED <<collected, accepted>>
            /\ last' = Call("explore_pathway", 1, NoDict, "none", "None", <<>>)
    /\ UNCHANGED <<parent, file, store, recordVars, walk>>

\* the files load_pathways is pointed at: the keys of the object it holds, or
\* a file that is missing, is not JSON or holds an entry Pathway rejects
Snapshot(readable, keys) == [readable |-> readable, keys |-> keys]

Snapshots ==
    {Snapshot(FALSE, {})} \cup
    {Snapshot(TRUE, keys) :
        keys \in {{}, {"map00010"}, {"map00010", "LLM_PATH_1"}, {"LLM_PATH_1"}}}

load_pathways(snapshot) ==
    /\ store[1].live
    /\ IF ~snapshot.readable
       THEN /\ UNCHANGED collected
            /\ last' = Call("load_pathways", 1, NoDict, "none", "caught", <<>>)
       ELSE /\ collected' = snapshot.keys
            /\ last' = Call("load_pathways", 1, NoDict, "none", "ok", <<>>)
    /\ UNCHANGED <<parent, file, store, recordVars, accepted, walk>>

\* discover_pathways_with_llm: agent.run runs the discovery tool, then the
\* validator, then Pathway(...), the new id and the store under it
discover_pathways_with_llm(response, fault, now, answer, name) ==
    /\ store[1].live
    /\ Len(store[1].data.pathways) + Len(response.pathways) <= MaxPathways
    /\ Cardinality(collected) < MaxCollected
    /\ \E r \in DiscoverRun(store[1].data, file, response, fault, now) :
          /\ store' = [store EXCEPT ![1].data = r.data]
          /\ file' = r.file
          /\ IF r.returned # "error" /\ Accepted(answer)
             THEN /\ collected' = collected \cup {LlmId(Cardinality(collected))}
                  /\ accepted' = accepted \cup {name}
                  /\ last' = Call("discover_pathways_with_llm", 1, NoDict, fault,
                                  "stored", <<>>)
             ELSE /\ UNCHANGED <<collected, accepted>>
                  /\ last' = Call("discover_pathways_with_llm", 1, NoDict, fault,
                                  "[]", <<>>)
    /\ UNCHANGED <<parent, recordVars, walk>>

(***************************************************************************)
(* explore_related_pathways: the recursion as a stack of frames.  A frame  *)
(* is one activation: its pathway, its max_depth, the position of its for  *)
(* loop, and the number of links that lead from the first pathway to it.   *)
(***************************************************************************)
\* the largest max_depth a caller passes
MaxDepth == 2

PathwayIds == {"map00010", "map00020", "map00030"}

\* related_pathways of each pathway, as the pages give them
Chain ==
    [i \in PathwayIds |->
        CASE i = "map00010" -> <<"map00020">>
          [] i = "map00020" -> <<"map00030">>
          [] OTHER -> <<>>]
Cycle ==
    [i \in PathwayIds |->
        CASE i = "map00010" -> <<"map00020">>
          [] i = "map00020" -> <<"map00030", "map00010">>
          [] OTHER -> <<"map00010">>]
SelfLoop ==
    [i \in PathwayIds |->
        CASE i = "map00010" -> <<"map00010", "map00020">>
          [] i = "map00020" -> <<"map00020">>
          [] OTHER -> <<>>]
Fork ==
    [i \in PathwayIds |->
        CASE i = "map00010" -> <<"map00020", "map00030", "map00020">>
          [] i = "map00020" -> <<"map00030">>
          [] OTHER -> <<"map00020">>]
Graphs == {Chain, Cycle, SelfLoop, Fork}

Frame(pathway, max_depth, index, links) ==
    [pathway |-> pathway, max_depth |-> max_depth, index |-> index,
     links |-> links]

NoGraph == [i \in PathwayIds |-> <<>>]

NoWalk ==
    [state |-> "idle", graph |-> NoGraph, start |-> "none", max_depth |-> 0,
     stack |-> <<>>, result |-> <<>>, log |-> {}]

\* a recursion that hands its own max_depth down
SameDepth(max_depth) == max_depth

\* the max_depth of the recursive call
Deeper(max_depth) == max_depth - 1

Push(stack, f) == stack \o <<f>>
Pop(stack) == SubSeq(stack, 1, Len(stack) - 1)
Top(stack) == stack[Len(stack)]
Advance(stack) == [stack EXCEPT ![Len(stack)].index = @ + 1]

Walking(state) ==
    Call("explore_related_pathways", 1, NoDict, "none", state, <<>>)

\* agent.explore_related_pathways(pathway, max_depth) is called
explore_related_pathways(graph, pathway, max_depth) ==
    /\ store[1].live
    /\ walk.state = "idle"
    /\ walk' = [NoWalk EXCEPT !.state = "running", !.graph = graph,
                              !.start = pathway, !.max_depth = max_depth,
                              !.stack = <<Frame(pathway, max_depth, 1, 0)>>]
    /\ last' = Walking("called")
    /\ UNCHANGED <<parent, file, store, recordVars, collected, accepted>>

\* if max_depth <= 0: return [], and the return at the end of the for loop
walk_return ==
    /\ walk.state = "running"
    /\ LET f == Top(walk.stack)
       IN  f.max_depth <= 0 \/ f.index > Len(walk.graph[f.pathway])
    /\ walk' = [walk EXCEPT !.stack = Pop(@),
                            !.state = IF Len(walk.stack) = 1 THEN "done" ELSE @]
    /\ last' = Walking(IF Len(walk.stack) = 1 THEN "returned" ELSE "running")
    /\ UNCHANGED <<parent, file, store, recordVars, collected, accepted>>

\* one round of the for loop: the membership test, explore_pathway, and the
\* recursive call when a pathway came back
walk_round(answer, name) ==
    /\ walk.state = "running"
    /\ LET f == Top(walk.stack)
       IN  /\ f.max_depth > 0
           /\ f.index <= Len(walk.graph[f.pathway])
           /\ LET related_id == walk.graph[f.pathway][f.index]
              IN  IF related_id \in collected
                  THEN /\ walk' = [walk EXCEPT !.stack = Advance(@)]
                       /\ UNCHANGED <<collected, accepted>>
                  ELSE IF Accepted(answer)
                  THEN /\ collected' = collected \cup {related_id}
                       /\ accepted' = accepted \cup {name}
                       /\ walk' = [walk EXCEPT
                             !.stack = Push(Advance(@),
                                            Frame(related_id, Deeper(f.max_depth),
                                                  1, f.links + 1)),
                             !.result = Append(@, related_id),
                             !.log = @ \cup {<<related_id, f.links + 1>>}]
                  ELSE /\ walk' = [walk EXCEPT
                             !.stack = Advance(@),
                             !.log = @ \cup {<<related_id, f.links + 1>>}]
                       /\ UNCHANGED <<collected, accepted>>
    /\ last' = Walking("running")
    /\ UNCHANGED <<parent, file, store, recordVars>>

AgentIdle == collected = {} /\ accepted = {} /\ walk = NoWalk

InitStore ==
    /\ parent \in ParentStates
    /\ file \in IF parent = "dir" THEN InitialFiles ELSE {Absent}
    /\ store = [i \in {1, 2} |-> NoStore]
    /\ last = Idle
    /\ raw = NoRaw
    /\ vres = NotValidated
    /\ built = NotBuilt
    /\ AgentIdle

\* one process owns the backing file
Next == \E i \in {1} : StoreOp(i, PathwayDicts, Faults)
Spec == InitStore /\ [][Next]_vars

\* two processes, each with its own store object on the same backing file
SharedDicts == {Gly9, Gly2, Tca9}
SharedFiles == {Absent, TextFile(DocText(<<Tca9>>, "t1"))}

InitShared ==
    /\ parent = "dir"
    /\ file \in SharedFiles
    /\ store = [i \in {1, 2} |-> NoStore]
    /\ last = Idle
    /\ raw = NoRaw
    /\ vres = NotValidated
    /\ built = NotBuilt
    /\ AgentIdle

NextShared == \E i \in {1, 2} : StoreOp(i, SharedDicts, {"none", "write"})
SpecShared == InitShared /\ [][NextShared]_vars

\* the validator and the record constructor applied to one raw dictionary
InitRecord ==
    /\ parent = "dir"
    /\ file = Absent
    /\ store = [i \in {1, 2} |-> NoStore]
    /\ last = Idle
    /\ raw \in RawDicts
    /\ vres = NotValidated
    /\ built = NotBuilt
    /\ AgentIdle

NextRecord == validate \/ construct
SpecRecord == InitRecord /\ [][NextRecord]_vars

\* the store as the repository's own callers use it: the script constructs
\* it and runs the discovery tool on it
AgentFiles ==
    {Absent,
     TextFile(DocText(<<Tca9>>, "t1")),
     TextFile(DocText(<<Gly9, Anon>>, "t1"))}

InitAgent ==
    /\ parent = "dir"
    /\ file \in AgentFiles
    /\ store = [i \in {1, 2} |-> NoStore]
    /\ last = Idle
    /\ raw = NoRaw
    /\ vres = NotValidated
    /\ built = NotBuilt
    /\ AgentIdle

\* the agent's inputs: the clock does not matter to it, and of the faults of
\* the tool it meets the ones that leave the file whole
AgentStamps == {"t1"}
AgentFaults == {"none", "open", "log"}
AgentNames == {"Glycolysis", "TCA"}
AgentResponses ==
    {Response("raises", <<>>),
     Response("ok", <<LlmPathway("Glycolysis", TRUE)>>),
     Response("ok", <<LlmPathway("TCA", TRUE), LlmPathway("glycolysis", FALSE)>>)}

NextAgent ==
    \/ \E now \in AgentStamps : init(1, now)
    \/ \E response \in Responses, fault \in ToolFaults, now \in AgentStamps :
          discover_run(1, response, fault, now)
    \/ \E pathway_id \in ExploreIds, answer \in AgentAnswers, name \in AgentNames :
          explore_pathway(pathway_id, answer, name)
    \/ \E snapshot \in Snapshots : load_pathways(snapshot)
    \/ \E response \in AgentResponses, fault \in AgentFaults, now \in AgentStamps,
          answer \in AgentAnswers, name \in AgentNames :
          discover_pathways_with_llm(response, fault, now, answer, name)

SpecAgent == InitAgent /\ [][NextAgent]_vars

\* the agent over a store, some pathways collected already
InitExplore ==
    /\ parent = "dir"
    /\ file = Absent
    /\ store = [i \in {1, 2} |->
                   IF i = 1 THEN Live(Document("doc", <<>>, "t1")) ELSE NoStore]
    /\ last = Idle
    /\ raw = NoRaw
    /\ vres = NotValidated
    /\ built = NotBuilt
    /\ collected \in {{}, {"map00010"}, {"map00030"}}
    /\ accepted = {}
    /\ walk = NoWalk

NextExplore ==
    \/ \E graph \in Graphs, pathway \in PathwayIds, max_depth \in (-1)..MaxDepth :
          explore_related_pathways(graph, pathway, max_depth)
    \/ walk_return
    \/ \E answer \in AgentAnswers : walk_round(answer, "TCA")

\* the interpreter runs the call it was given until it returns
SpecExplore == InitExplore /\ [][NextExplore]_vars /\ WF_vars(NextExplore)

(***************************************************************************)
(* Properties of the store.                                                *)
(***************************************************************************)
Stores == {1, 2}

PathwaysOf(i) == store[i].data.pathways

\* the store of process i holds a document whose entries all carry a name
WellFormed(i) ==
    /\ store[i].live
    /\ store[i].data.shape = "doc"
    /\ \A k \in 1..Len(PathwaysOf(i)) : PathwaysOf(i)[k].name # NoName

NoTwoShareAName(ps) ==
    \A a, b \in 1..Len(ps) :
        (a # b /\ ps[a].name # NoName /\ ps[b].name # NoName)
            => ps[a].name # ps[b].name

HoldsName(ps, n) == \E k \in 1..Len(ps) : ps[k].name = n

Holds(ps, d) == \E k \in 1..Len(ps) : ps[k] = d

\* this step is process i calling add_pathway(d)
AddStep(i, d) == last'.op = "add" /\ last'.who = i /\ last'.arg = d

\* the text parses to a document with exactly these pathways
ParsesTo(text, ps) ==
    /\ json_load(text).ok
    /\ json_load(text).value.shape = "doc"
    /\ json_load(text).value.pathways = ps

\* C1: with one writer, a store whose names are pairwise distinct keeps them
\* pairwise distinct through every add_pathway, get_known_pathways and save,
\* whatever dictionary is added.
C1_NamesStayDistinct ==
    [][\A i \in Stores :
          (/\ store[i].live
           /\ last'.op \in {"add", "get", "save"}
           /\ NoTwoShareAName(PathwaysOf(i)))
              => NoTwoShareAName(store'[i].data.pathways)]_vars

\* a second dictionary named Glycolysis was offered to a store that holds
\* Glycolysis and another pathway
C1_Witness ==
    /\ last.op = "add" /\ last.arg = Gly2 /\ last.outcome = "ok"
    /\ Holds(PathwaysOf(1), Gly9)
    /\ Len(PathwaysOf(1)) >= 2
    /\ NoTwoShareAName(PathwaysOf(1))

\* C2: add_pathway(d) with the name of a stored entry does not raise and
\* leaves the store exactly as it was, so the first-added version stays
\* (stores whose entries all carry a name).
C2_DuplicateAddChangesNothing ==
    [][\A i \in Stores, d \in PathwayDicts :
          (/\ WellFormed(i)
           /\ HoldsName(PathwaysOf(i), d.name)
           /\ AddStep(i, d))
              => (last'.outcome = "ok" /\ store' = store)]_vars

\* Glycolysis with confidence 0.2 was offered, the store still holds the
\* first version with 0.9 and not the second
C2_Witness ==
    /\ last = Call("add", 1, Gly2, "none", "ok", <<>>)
    /\ Holds(PathwaysOf(1), Gly9)
    /\ ~Holds(PathwaysOf(1), Gly2)

\* C3: add_pathway(d) appends d if and only if no stored name equals d's
\* name exactly, letter case included (stores whose entries all carry a
\* name, d carrying one).
C3_AppendsIffNameIsNew ==
    [][\A i \in Stores, d \in PathwayDicts :
          (/\ WellFormed(i)
           /\ d.name # NoName
           /\ AddStep(i, d))
              => /\ last'.outcome = "ok"
                 /\ store'[i].data.pathways =
                       IF HoldsName(PathwaysOf(i), d.name)
                       THEN PathwaysOf(i)
                       ELSE Append(PathwaysOf(i), d)]_vars

\* glycolysis was appended to a store that holds Glycolysis
C3_Witness ==
    /\ last = Call("add", 1, gly9, "none", "ok", <<>>)
    /\ Len(PathwaysOf(1)) >= 2
    /\ PathwaysOf(1)[Len(PathwaysOf(1))] = gly9
    /\ HoldsName(PathwaysOf(1), "Glycolysis")

\* C4: a store constructed right after a successful save holds the pathway
\* list that was saved, entry for entry and in order.
C4_SaveThenLoadRoundTrips ==
    [][\A i, j \in Stores :
          (/\ last.op = "save" /\ last.who = i /\ last.outcome = "ok"
           /\ last'.op = "init" /\ last'.who = j)
              => /\ last'.outcome = "ok"
                 /\ store'[j].live
                 /\ store'[j].data.shape = "doc"
                 /\ store'[j].data.pathways = PathwaysOf(i)]_vars

\* a store was loaded from a file written by a save of a list that no
\* initial file holds, and carries the time of that save
C4_Witness ==
    /\ last.op = "init" /\ last.outcome = "ok"
    /\ PathwaysOf(1) = <<Tca9, gly9, Gly2>>
    /\ file = TextFile(DocText(<<Tca9, gly9, Gly2>>, "t2"))
    /\ store[1].data.last_updated = "t2"

\* C5: constructing a store on a file that cannot be read or does not parse
\* does not raise and gives a store with no pathways.
C5_BadFileLoadsEmpty ==
    [][\A i \in Stores :
          (/\ last'.op = "init" /\ last'.who = i
           /\ \/ file.kind = "unreadable"
              \/ file.kind = "text" /\ ~json_load(file.text).ok)
              => /\ last'.outcome = "ok"
                 /\ store'[i] = Live(Document("doc", <<>>,
                                              store'[i].data.last_updated))]_vars

\* a store was constructed on the text a failed save left behind
C5_Witness ==
    /\ last.op = "init" /\ last.outcome = "ok"
    /\ file.kind = "text" /\ ~json_load(file.text).ok
    /\ Len(file.text) > 3
    /\ store[1] = Live(Document("doc", <<>>, store[1].data.last_updated))

\* C6: a save whose writing fails raises, and a save that returns has
\* written the whole document.
C6_SaveFailureIsRaised ==
    [][\A i \in Stores :
          (last'.op = "save" /\ last'.who = i /\ store[i].data.shape = "doc")
              => /\ (\/ last'.fault # "none"
                     \/ file.kind = "unreadable"
                     \/ ~json_dump(PathwaysOf(i), "t1").ok)
                        => last'.outcome = "raised"
                 /\ last'.outcome = "ok"
                        => \E now \in Stamps :
                              /\ json_dump(PathwaysOf(i), now).ok
                              /\ file' = TextFile(json_dump(PathwaysOf(i), now).chunks)]_vars

\* a save raised on a dictionary json cannot serialise and left a cut text
C6_Witness ==
    /\ last.op = "save" /\ last.fault = "none" /\ last.outcome = "raised"
    /\ Holds(PathwaysOf(1), TcaDt)
    /\ file.kind = "text" /\ ~json_load(file.text).ok

\* C7: get_known_pathways returns every stored name as stored and in the
\* store's order; a load of [Glycolysis, TCA, glycolysis] gives that list,
\* and an inserting add_pathway appends its name to the result.
C7_KnownNamesInOrder ==
    [][\A i \in Stores :
          /\ (WellFormed(i) /\ last'.op = "get" /\ last'.who = i)
                => /\ last'.outcome = "ok"
                   /\ Len(last'.ret) = Len(PathwaysOf(i))
                   /\ \A k \in 1..Len(PathwaysOf(i)) :
                         last'.ret[k] = PathwaysOf(i)[k].name
          /\ (/\ last'.op = "init" /\ last'.who = i
              /\ file = TextFile(DocText(<<Gly9, Tca9, gly9>>, "t1")))
                => KnownNames(store'[i].data.pathways)
                      = <<"Glycolysis", "TCA", "glycolysis">>
          /\ \A d \in PathwayDicts :
                (/\ WellFormed(i) /\ AddStep(i, d)
                 /\ store'[i].data.pathways = Append(PathwaysOf(i), d))
                    => KnownNames(store'[i].data.pathways)
                          = Append(KnownNames(PathwaysOf(i)), d.name)]_vars

\* the names of a loaded TCA and two added pathways came back in that order
C7_Witness ==
    /\ last.op = "get" /\ last.outcome = "ok"
    /\ last.ret = <<"TCA", "glycolysis", "Glycolysis">>

\* C8: a save that returns leaves in the file exactly the saving process's
\* pathway list: what only the other process holds is not in the file.
C8_LastSaveWins ==
    [][\A i, j \in Stores :
          (last'.op = "save" /\ last'.who = i /\ last'.outcome = "ok")
              => /\ ParsesTo(file'.text, PathwaysOf(i))
                 /\ \A k \in 1..Len(PathwaysOf(j)) :
                       ~Holds(PathwaysOf(i), PathwaysOf(j)[k])
                          => ~Holds(json_load(file'.text).value.pathways,
                                    PathwaysOf(j)[k])]_vars

\* process 2 saved last; process 1 holds a pathway that the file lacks
C8_Witness ==
    /\ last.op = "save" /\ last.who = 2 /\ last.outcome = "ok"
    /\ store[1].live /\ store[2].live
    /\ ParsesTo(file.text, PathwaysOf(2))
    /\ Holds(PathwaysOf(1), Gly9)
    /\ ~HoldsName(PathwaysOf(2), "Glycolysis")
    /\ Len(PathwaysOf(2)) >= 1

(***************************************************************************)
(* Properties of the record model and of the validation step.              *)
(***************************************************************************)
Lacks(items, required) == \E k \in 1..Len(items) : ~(required \subseteq items[k])

\* the failures the construction contract lists: a required field of the
\* pathway absent, a confidence outside [0, 1], a compound or a reaction
\* without one of its required fields
ListedFailure(d) ==
    \/ ~({"id", "name", "metadata"} \subseteq d.keys)
    \/ /\ "metadata" \in d.keys
       /\ "confidence" \in d.metadata.keys
       /\ (d.metadata.confidence < 0 \/ d.metadata.confidence > 10)
    \/ Lacks(d.compounds, {"id", "name"})
    \/ Lacks(d.reactions, {"reactants", "products"})

\* a metadata dictionary given without its source or its confidence
MetadataIncomplete(d) ==
    "metadata" \in d.keys /\ ~({"source", "confidence"} \subseteq d.metadata.keys)

\* C9 as stated: construction fails exactly on the listed failures.
C9_FailsExactlyAsListed ==
    built.called => (built.errors # {} <=> ListedFailure(raw))

\* C9, amended: construction fails exactly on the listed failures or on a
\* metadata dictionary without source or confidence; a missing id is named;
\* confidence 0.0 and 1.0 pass and 1.5 does not; omitted optional fields
\* come out as empty lists or None.
C9_FailsExactlyOnRequiredOrRange ==
    built.called =>
        /\ built.errors # {} <=> (ListedFailure(raw) \/ MetadataIncomplete(raw))
        /\ "id" \notin raw.keys => "id" \in built.errors
        /\ (/\ ~ListedFailure(raw) /\ ~MetadataIncomplete(raw)
            /\ raw.metadata.confidence \in {0, 10}) => built.errors = {}
        /\ ("metadata" \in raw.keys /\ "confidence" \in raw.metadata.keys
            /\ raw.metadata.confidence = 15) => built.errors # {}
        /\ built.errors = {} =>
              /\ "description" \notin raw.keys => built.pathway.description = "None"
              /\ "related_pathways" \notin raw.keys
                    => built.pathway.related_pathways = "[]"
              /\ "compounds" \notin raw.keys => built.pathway.compounds = <<>>
              /\ "reactions" \notin raw.keys => built.pathway.reactions = <<>>
              /\ Len(built.pathway.compounds) = Len(raw.compounds)
              /\ Len(built.pathway.reactions) = Len(raw.reactions)
              /\ \A k \in 1..Len(raw.compounds) :
                    "formula" \notin raw.compounds[k]
                        => built.pathway.compounds[k].formula = "None"
              /\ \A k \in 1..Len(raw.reactions) :
                    "enzymes" \notin raw.reactions[k]
                        => built.pathway.reactions[k].enzymes = "[]"
              /\ "verification_status" \notin raw.metadata.keys
                    => built.pathway.verification_status = "unverified"

\* a pathway with confidence 1.0, a compound without formula, a reaction
\* without enzymes and no description was constructed
C9_Witness ==
    /\ built.called /\ built.errors = {}
    /\ raw.metadata.confidence = 10
    /\ "description" \notin raw.keys
    /\ raw.compounds = <<{"id", "name"}>>
    /\ raw.reactions = <<{"reactants", "products"}>>
    /\ built.pathway.compounds = <<[formula |-> "None"]>>
    /\ built.pathway.reactions = <<[enzymes |-> "[]"]>>

\* C10: for every raw dictionary the validation step returns either the
\* dictionary with verification_status "validated" and notes, or the list of
\* the required fields that are missing; the store is not touched.
C10_ValidatedOrMissingReport ==
    (raw.json /\ vres.kind # "none") =>
        /\ \/ /\ vres.kind = "validated"
              /\ vres.dict.metadata.verification_status = "validated"
              /\ "llm_validation_notes" \in vres.dict.metadata.keys
           \/ /\ vres.kind = "Validation Error: Missing required fields"
              /\ vres.missing # <<>>
        /\ store = [i \in Stores |-> NoStore]
        /\ file = Absent

(***************************************************************************)
(* Properties of the store's construction.                                 *)
(***************************************************************************)
\* C12: whatever the backing file's path, constructing the store does not
\* raise and leaves the file's parent directory in place.
C12_ParentDirectoryEnsured ==
    last.op = "init" => (last.outcome = "ok" /\ parent = "dir")

\* C15: a constructed store holds an object with a "pathways" list whose
\* entries all carry a name, whatever the backing file held, so add_pathway
\* with a named pathway and get_known_pathways do not raise on it.
C15_LoadedDocumentIsWellShaped ==
    /\ \A i \in Stores : store[i].live => WellFormed(i)
    /\ (last.op = "get" \/ (last.op = "add" /\ last.arg.name # NoName))
          => last.outcome = "ok"

(***************************************************************************)
(* Properties of the discovery tool and of the agent.                      *)
(***************************************************************************)
\* the pathway list the file holds, <<>> when it holds none that parses
FilePathways(f) ==
    IF f.kind = "text" /\ json_load(f.text).ok
    THEN json_load(f.text).value.pathways ELSE <<>>

\* C16: PathwayDiscoveryLLMTool._run does not raise, and when it returns its
\* error message the store's pathway list and the file's are as before.
C16_ErrorLeavesStoreAndFile ==
    [][\A i \in Stores :
          (/\ last'.op = "discover_run"
           /\ last'.who = i
           /\ last'.outcome = "error")
              => /\ store'[i].data.pathways = PathwaysOf(i)
                 /\ FilePathways(file') = FilePathways(file)]_vars

\* the entries a step appended to store i
Grew(i) ==
    /\ store[i].live /\ store'[i].live
    /\ Len(store'[i].data.pathways) > Len(PathwaysOf(i))

Added(i) ==
    {store'[i].data.pathways[k] :
        k \in (Len(PathwaysOf(i)) + 1)..Len(store'[i].data.pathways)}

ToolOps == {"discover_run", "discover_pathways_with_llm"}

C14_GeneratedIdIsUnique ==
    [][(last'.op = "discover_pathways_with_llm" /\ last'.outcome = "stored")
          => LlmId(Cardinality(collected)) \notin collected]_vars

\* t is reached from s by exactly n related-pathway links
RECURSIVE Linked(_, _, _, _)
Linked(graph, s, t, n) ==
    IF n = 0 THEN s = t
    ELSE \E k \in 1..Len(graph[s]) : Linked(graph, graph[s][k], t, n - 1)

WithinDepth ==
    \A e \in walk.log :
        /\ e[2] >= 1 /\ e[2] <= walk.max_depth
        /\ Linked(walk.graph, walk.start, e[1], e[2])

NothingBelowOne ==
    (walk.state # "idle" /\ walk.max_depth <= 0)
        => (walk.log = {} /\ walk.result = <<>>)

\* C13: explore_related_pathways returns on every graph, cycles included; it
\* calls explore_pathway only on pathways within max_depth links of the
\* first one; with max_depth <= 0 it returns [] and explores nothing.
C13_WalkEndsWithinDepth ==
    /\ [](WithinDepth /\ NothingBelowOne)
    /\ <>(walk.state = "done")

\* a walk over the cycle has returned after exploring down to two links away
C13_Witness ==
    /\ walk.state = "done"
    /\ walk.graph = Cycle
    /\ walk.max_depth = 2
    /\ \E e \in walk.log : e[2] = 2
    /\ Len(walk.result) >= 2

=============================================================================
